---- MODULE Spec2Model ----
(***************************************************************************)
(* The six collections of MemStorage (server/storage.ts) with their       *)
(* create / get / update / delete / list operations, its userGuilds index, *)
(* its database-file operations, and the routes of server/routes.ts that   *)
(* drive them behind requireAuth: the Discord login callback,              *)
(* GET /api/guilds (roster reconciliation, as one step and await by        *)
(* await), PATCH /api/guilds/:id, the child routes and the database-file   *)
(* routes.                                                                 *)
(*                                                                         *)
(* Identifiers issued by randomUUID() are modelled as the naturals         *)
(* 1, 2, 3, ... in the order of issue; a JavaScript Map iterates in        *)
(* insertion order, and set() on an existing key keeps its position, so    *)
(* the iteration order of every Map is the ascending order of its keys.    *)
(***************************************************************************)
EXTENDS Integers, Sequences, FiniteSets, TLC

\* ------------------------------------------------------------------ bounds
\* Number of requests served in one behaviour (also the range of the clock).
MaxRequests == 3
\* Longest external roster the fetch returns.
MaxRoster == 2

\* ------------------------------------------------------- value domains
Null == "null"
\* an id string that randomUUID never issues (a request may still carry it)
JunkId == 0
\* the administrator bit tested by the filter
ADMINISTRATOR == 8
\* JavaScript's bitwise operators work on 32 bits
PermBits == 32

DiscordIds == {"g1", "g2"}
Callers == {"u1"}
EmptySettings == {}
SomeSettings == {<<"prefix", "!">>, <<"logging", "memberEvents">>}

GuildFields ==
  {"id", "discordId", "name", "icon", "ownerDiscordId", "memberCount",
   "botJoined", "settings", "createdAt"}

\* The (owner flag, permission bitmask) pairs of roster entries.
Auths ==
  { [owner |-> TRUE,  permissions |-> 0],
    [owner |-> FALSE, permissions |-> 8],
    [owner |-> FALSE, permissions |-> 16],
    [owner |-> FALSE, permissions |-> 24],
    [owner |-> FALSE, permissions |-> 0] }

\* The (name, icon, approximate_member_count) triples of roster entries; the
\* count is {} when the entry carries none (JS undefined) and {n} otherwise.
Shapes ==
  { [name |-> "Alpha", icon |-> Null, count |-> {50}],
    [name |-> "Beta",  icon |-> "i1", count |-> {0}],
    [name |-> "Beta",  icon |-> "i1", count |-> {}] }

Shape0 == [name |-> "Alpha", icon |-> Null, count |-> {50}]
Owner0 == [owner |-> TRUE, permissions |-> 0]

Entry(d, a, s) ==
  [id |-> d, name |-> s.name, icon |-> s.icon, owner |-> a.owner,
   permissions |-> a.permissions, approximate_member_count |-> s.count]

\* Roster entries: every authorisation with the first shape, and every shape
\* with an owner entry.
Entries ==
  { Entry(d, a, Shape0) : d \in DiscordIds, a \in Auths }
    \cup { Entry(d, Owner0, s) : d \in DiscordIds, s \in Shapes }

RECURSIVE SeqsUpTo(_, _)
SeqsUpTo(S, n) ==
  IF n = 0 THEN {<<>>}
  ELSE LET shorter == SeqsUpTo(S, n - 1)
       IN shorter \cup { Append(r, e) : r \in {q \in shorter : Len(q) = n - 1}, e \in S }

Rosters == SeqsUpTo(Entries, MaxRoster)

\* ------------------------------------------------------------ JavaScript
\* count || b, for an optional number count (undefined and 0 are falsy)
OrElse(count, b) ==
  IF count = {} \/ count = {0} THEN b ELSE CHOOSE n \in count : TRUE

\* icon || null  (null, undefined and "" are falsy)
IconOrNull(icon) == IF icon \in {Null, ""} THEN Null ELSE icon

RECURSIVE BitAndN(_, _, _)
BitAndN(a, b, n) ==
  IF n = 0 \/ a = 0 \/ b = 0 THEN 0
  ELSE (a % 2) * (b % 2) + 2 * BitAndN(a \div 2, b \div 2, n - 1)

\* a & b
BitAnd(a, b) == BitAndN(a, b, PermBits)

\* ------------------------------------------------------------ state
VARIABLES
  guilds,   \* MemStorage.guilds: key -> Guild record
  nextId,   \* the next identifier randomUUID() issues
  now,      \* the clock read by new Date()
  last,     \* the request being answered and its response ("none" when idle)
  users,            \* MemStorage.users: key -> User record
  attendanceEvents, \* MemStorage.attendanceEvents: key -> AttendanceEvent record
  forms,            \* MemStorage.forms: key -> Form record
  giveaways,        \* MemStorage.giveaways: key -> Giveaway record
  twitchStreamers,  \* MemStorage.twitchStreamers: key -> TwitchStreamer record
  logins,   \* the login callbacks in flight and the await each is suspended at
  files,    \* the files beneath databasePath: name -> the chunks on disk
  writes,   \* the fs.writeFile calls in flight
  userGuilds,   \* MemStorage.userGuilds: userId -> guildIds
  reconciling   \* the GET /api/guilds handlers in flight, each at an await

\* the collections other than guilds
children == <<users, attendanceEvents, forms, giveaways, twitchStreamers>>
\* what lives outside the six collections
outside == <<logins, files, writes, userGuilds, reconciling>>

vars == <<guilds, nextId, now, last, users, attendanceEvents, forms, giveaways,
          twitchStreamers, logins, files, writes, userGuilds, reconciling>>

\* Partial<Guild>: every field is either not supplied ({}) or supplied ({v}).
NoUpdates == [f \in GuildFields |-> {}]

\* last.res is the JSON array (or the one object) of the response; last.trace
\* records, per loop iteration of GET /api/guilds, the roster entry, the
\* branch taken and what the storage call returned.
Idle ==
  [op |-> "none", kind |-> "", status |-> 0, caller |-> "", key |-> JunkId,
   body |-> NoUpdates, roster |-> <<>>, res |-> <<>>, trace |-> <<>>,
   filename |-> <<>>, error |-> ""]

\* ------------------------------------------------------------ MemStorage
Min(S) == CHOOSE m \in S : \A o \in S : m <= o

\* { ...record, ...updates }
Spread(record, updates) ==
  [f \in GuildFields |->
     IF updates[f] = {} THEN record[f] ELSE CHOOSE v \in updates[f] : TRUE]

MapSet(map, key, value) ==
  [k \in DOMAIN map \cup {key} |-> IF k = key THEN value ELSE map[k]]

\* Array.from(this.guilds.values()).find(...): {} when nothing matches,
\* otherwise the first match in insertion order.
getGuildByDiscordId(map, discordId) ==
  LET hits == {k \in DOMAIN map : map[k].discordId = discordId}
  IN IF hits = {} THEN {} ELSE {map[Min(hits)]}

\* this.guilds.get(id)
getGuild(map, id) == IF id \in DOMAIN map THEN {map[id]} ELSE {}

\* (this.userGuilds.get(userId) || []).map(id => this.guilds.get(id))
\*   .filter(Boolean)
getUserGuilds(index, map, userId) ==
  LET guildIds == IF userId \in DOMAIN index THEN index[userId] ELSE <<>>
      found == [i \in 1..Len(guildIds) |-> getGuild(map, guildIds[i])]
      kept == SelectSeq(found, LAMBDA g : g /= {})
  IN [i \in 1..Len(kept) |-> CHOOSE g \in kept[i] : TRUE]

\* id is the value randomUUID() returns, t the value of new Date().
createGuild(map, insertGuild, id, t) ==
  LET guild ==
        [id |-> id,
         discordId |-> insertGuild.discordId,
         name |-> insertGuild.name,
         icon |-> IconOrNull(insertGuild.icon),
         ownerDiscordId |-> insertGuild.ownerDiscordId,
         memberCount |-> insertGuild.memberCount,
         botJoined |-> insertGuild.botJoined,
         settings |-> IF insertGuild.settings = {} THEN EmptySettings
                      ELSE CHOOSE s \in insertGuild.settings : TRUE,
         createdAt |-> t]
  IN [guilds |-> MapSet(map, id, guild), ret |-> {guild}]

\* Mutant of updateGuild: a supplied settings document is merged into the
\* stored one, key by key, instead of replacing it.
updateGuildMergingSettings(map, id, updates) ==
  LET guild == getGuild(map, id)
  IN IF guild = {} THEN [guilds |-> map, ret |-> {}]
     ELSE LET g == CHOOSE x \in guild : TRUE
              spread == Spread(g, updates)
              kept == {pair \in g.settings :
                         \A new \in spread.settings : new[1] /= pair[1]}
              updatedGuild == [spread EXCEPT !.settings = spread.settings \cup kept]
          IN [guilds |-> MapSet(map, id, updatedGuild), ret |-> {updatedGuild}]

updateGuild(map, id, updates) ==
  LET guild == getGuild(map, id)
  IN IF guild = {} THEN [guilds |-> map, ret |-> {}]
     ELSE LET updatedGuild == Spread(CHOOSE g \in guild : TRUE, updates)
          IN [guilds |-> MapSet(map, id, updatedGuild), ret |-> {updatedGuild}]

\* ------------------------------------------------------------ GET /api/guilds
\* (guild.permissions & 0x8) === 0x8 || guild.owner
IsAdminGuild(discordGuild) ==
  BitAnd(discordGuild.permissions, ADMINISTRATOR) = ADMINISTRATOR \/ discordGuild.owner

adminGuilds(discordGuilds) == SelectSeq(discordGuilds, IsAdminGuild)

\* Mutant of NewGuildFields: the caller is recorded as owner of every new guild.
NewGuildFieldsOwnerAlways(discordGuild, userDiscordId) ==
  [discordId |-> discordGuild.id,
   name |-> discordGuild.name,
   icon |-> discordGuild.icon,
   ownerDiscordId |-> userDiscordId,
   memberCount |-> OrElse(discordGuild.approximate_member_count, 0),
   botJoined |-> FALSE,
   settings |-> {}]

\* the object literal handed to storage.createGuild
NewGuildFields(discordGuild, userDiscordId) ==
  [discordId |-> discordGuild.id,
   name |-> discordGuild.name,
   icon |-> discordGuild.icon,
   ownerDiscordId |-> IF discordGuild.owner THEN userDiscordId ELSE "",
   memberCount |-> OrElse(discordGuild.approximate_member_count, 0),
   botJoined |-> FALSE,
   settings |-> {}]

\* Mutant of RefreshFields: the refresh also rewrites ownerDiscordId from the
\* entry's owner flag, clearing it when the caller is not the owner.
RefreshFieldsClearingOwner(discordGuild, guild) ==
  [NoUpdates EXCEPT
     !["name"] = {discordGuild.name},
     !["icon"] = {discordGuild.icon},
     !["ownerDiscordId"] = {IF discordGuild.owner THEN guild.ownerDiscordId ELSE ""},
     !["memberCount"] = {OrElse(discordGuild.approximate_member_count, guild.memberCount)}]

\* the object literal handed to storage.updateGuild
RefreshFields(discordGuild, guild) ==
  [NoUpdates EXCEPT
     !["name"] = {discordGuild.name},
     !["icon"] = {discordGuild.icon},
     !["memberCount"] = {OrElse(discordGuild.approximate_member_count, guild.memberCount)}]

\* One iteration of the for loop over adminGuilds. st carries the store, the
\* id generator, the guilds array being collected, and (history only) which
\* branch each iteration took.
UpsertOne(st, discordGuild, userDiscordId, t) ==
  LET found == getGuildByDiscordId(st.guilds, discordGuild.id)
  IN IF found = {}
     THEN LET c == createGuild(st.guilds, NewGuildFields(discordGuild, userDiscordId),
                               st.nextId, t)
          IN [guilds |-> c.guilds, nextId |-> st.nextId + 1,
              out |-> st.out \o <<CHOOSE g \in c.ret : TRUE>>,
              trace |-> Append(st.trace, [branch |-> "create", entry |-> discordGuild,
                                          ret |-> c.ret])]
     ELSE LET guild == CHOOSE g \in found : TRUE
              u == updateGuild(st.guilds, guild.id, RefreshFields(discordGuild, guild))
          IN [guilds |-> u.guilds, nextId |-> st.nextId,
              out |-> IF u.ret = {} THEN st.out
                      ELSE st.out \o <<CHOOSE g \in u.ret : TRUE>>,
              trace |-> Append(st.trace, [branch |-> "update", entry |-> discordGuild,
                                          ret |-> u.ret])]

RECURSIVE UpsertAll(_, _, _, _)
UpsertAll(st, admin, userDiscordId, t) ==
  IF admin = <<>> THEN st
  ELSE UpsertAll(UpsertOne(st, Head(admin), userDiscordId, t), Tail(admin),
                 userDiscordId, t)

\* Mutant of GetGuilds: the handler rebuilds the guilds Map from the roster
\* instead of merging the roster into it.
GetGuildsRebuilding(userDiscordId, discordGuilds) ==
  /\ last.op = "none"
  /\ now <= MaxRequests
  /\ LET st == UpsertAll([guilds |-> <<>>, nextId |-> nextId, out |-> <<>>,
                          trace |-> <<>>], adminGuilds(discordGuilds), userDiscordId, now)
     IN /\ guilds' = st.guilds
        /\ nextId' = st.nextId
        /\ last' = [Idle EXCEPT !.op = "getGuilds", !.status = 200,
                                !.caller = userDiscordId, !.roster = discordGuilds,
                                !.res = st.out, !.trace = st.trace]
  /\ now' = now + 1
  /\ UNCHANGED <<children, outside>>

\* Mutant of GetGuilds: the handler also records the ids of the guilds it
\* answers in the userId -> guildIds index.
GetGuildsIndexing(userDiscordId, discordGuilds) ==
  /\ last.op = "none"
  /\ now <= MaxRequests
  /\ LET st == UpsertAll([guilds |-> guilds, nextId |-> nextId, out |-> <<>>,
                          trace |-> <<>>], adminGuilds(discordGuilds), userDiscordId, now)
     IN /\ guilds' = st.guilds
        /\ nextId' = st.nextId
        /\ userGuilds' = MapSet(userGuilds, userDiscordId,
                                [i \in 1..Len(st.out) |-> st.out[i].id])
        /\ last' = [Idle EXCEPT !.op = "getGuilds", !.status = 200,
                                !.caller = userDiscordId, !.roster = discordGuilds,
                                !.res = st.out, !.trace = st.trace]
  /\ now' = now + 1
  /\ UNCHANGED <<children, logins, files, writes, reconciling>>

\* An authenticated GET /api/guilds whose fetch returned discordGuilds.
GetGuilds(userDiscordId, discordGuilds) ==
  /\ last.op = "none"
  /\ now <= MaxRequests
  /\ LET st == UpsertAll([guilds |-> guilds, nextId |-> nextId, out |-> <<>>,
                          trace |-> <<>>], adminGuilds(discordGuilds), userDiscordId, now)
     IN /\ guilds' = st.guilds
        /\ nextId' = st.nextId
        /\ last' = [Idle EXCEPT !.op = "getGuilds", !.status = 200,
                                !.caller = userDiscordId, !.roster = discordGuilds,
                                !.res = st.out, !.trace = st.trace]
  /\ now' = now + 1
  /\ UNCHANGED <<children, outside>>

\* Mutant of GetGuildsFetchFailed: a failed fetch is taken for an empty guilds
\* Map, so the handler answers 500 after clearing the store.
GetGuildsFetchFailedClearing(userDiscordId) ==
  /\ last.op = "none"
  /\ now <= MaxRequests
  /\ guilds' = <<>>
  /\ last' = [Idle EXCEPT !.op = "getGuilds", !.status = 500, !.caller = userDiscordId]
  /\ now' = now + 1
  /\ UNCHANGED <<nextId, children, outside>>

\* The fetch answered not-ok or threw: the catch block answers 500.
GetGuildsFetchFailed(userDiscordId) ==
  /\ last.op = "none"
  /\ now <= MaxRequests
  /\ last' = [Idle EXCEPT !.op = "getGuilds", !.status = 500, !.caller = userDiscordId]
  /\ now' = now + 1
  /\ UNCHANGED <<guilds, nextId, children, outside>>

\* requireAuth answers 401 without calling the handler.
GetGuildsUnauthenticated ==
  /\ last.op = "none"
  /\ now <= MaxRequests
  /\ last' = [Idle EXCEPT !.op = "getGuilds", !.status = 401]
  /\ now' = now + 1
  /\ UNCHANGED <<guilds, nextId, children, outside>>

\* ------------------------------------------------------------ PATCH /api/guilds/:id
Only(f, v) == [NoUpdates EXCEPT ![f] = {v}]

\* Request bodies: the empty object, one field, or the settings form's body.
\* An id in a body is the id of a stored guild or a string that is no id.
Bodies ==
  {NoUpdates}
    \cup { Only("id", k) : k \in DOMAIN guilds \cup {JunkId} }
    \cup { Only("discordId", d) : d \in DiscordIds }
    \cup { Only("memberCount", 70), Only("botJoined", TRUE),
           Only("settings", SomeSettings), Only("createdAt", 0) }

PatchGuild(key, updateData) ==
  /\ last.op = "none"
  /\ now <= MaxRequests
  /\ LET u == updateGuild(guilds, key, updateData)
     IN /\ guilds' = u.guilds
        /\ last' = [Idle EXCEPT !.op = "patchGuild", !.key = key, !.body = updateData,
                                !.status = IF u.ret = {} THEN 404 ELSE 200,
                                !.res = IF u.ret = {} THEN <<>>
                                        ELSE <<CHOOSE g \in u.ret : TRUE>>]
  /\ now' = now + 1
  /\ UNCHANGED <<nextId, children, outside>>

\* The response has been sent; the server waits for the next request.
Finish ==
  /\ last.op /= "none"
  /\ last' = Idle
  /\ UNCHANGED <<guilds, nextId, now, children, outside>>

Init ==
  /\ guilds = <<>>
  /\ nextId = 1
  /\ now = 1
  /\ last = Idle
  /\ users = <<>>
  /\ attendanceEvents = <<>>
  /\ forms = <<>>
  /\ giveaways = <<>>
  /\ twitchStreamers = <<>>
  /\ logins = <<>>
  /\ files = <<>>
  /\ writes = <<>>
  /\ userGuilds = <<>>
  /\ reconciling = <<>>

Next ==
  \/ \E u \in Callers, r \in Rosters : GetGuilds(u, r)
  \/ \E u \in Callers : GetGuildsFetchFailed(u)
  \/ GetGuildsUnauthenticated
  \/ \E k \in DOMAIN guilds \cup {JunkId}, b \in Bodies : PatchGuild(k, b)
  \/ Finish

Spec == Init /\ [][Next]_vars

\* ------------------------------------------------------------ users
UserIds == {"u1", "u2"}

UserFields ==
  {"id", "discordId", "username", "discriminator", "avatar", "accessToken",
   "refreshToken", "tokenExpires", "createdAt"}

\* A Date | null field is a set: {} for null, {t} for the date t.
SevenDays == 7 * 24 * 60 * 60 * 1000

\* The profiles passport-discord hands to the verify callback.
Profiles ==
  { [id |-> d, username |-> n, discriminator |-> "0", avatar |-> Null] :
      d \in UserIds, n \in {"ann", "bob"} }

\* x || null for an optional string x ({} when the key is missing)
OrNull(x) ==
  IF x = {} \/ x = {Null} \/ x = {""} THEN Null ELSE CHOOSE v \in x : TRUE

\* { ...record, ...updates } for a record of any kind
Assign(record, updates) ==
  [f \in DOMAIN record |->
     IF updates[f] = {} THEN record[f] ELSE CHOOSE v \in updates[f] : TRUE]

NoUserUpdates == [f \in UserFields |-> {}]

getUser(map, id) == IF id \in DOMAIN map THEN {map[id]} ELSE {}

getUserByDiscordId(map, discordId) ==
  LET hits == {k \in DOMAIN map : map[k].discordId = discordId}
  IN IF hits = {} THEN {} ELSE {map[Min(hits)]}

\* insertUser: discordId and username are values, the optional fields are {}
\* when missing and {v} otherwise; tokenExpires is {} or {t}.
createUser(map, insertUser, id, t) ==
  LET user ==
        [id |-> id,
         discordId |-> insertUser.discordId,
         username |-> insertUser.username,
         discriminator |-> OrNull(insertUser.discriminator),
         avatar |-> OrNull(insertUser.avatar),
         accessToken |-> OrNull(insertUser.accessToken),
         refreshToken |-> OrNull(insertUser.refreshToken),
         tokenExpires |-> insertUser.tokenExpires,
         createdAt |-> t]
  IN [users |-> MapSet(map, id, user), ret |-> {user}]

updateUser(map, id, updates) ==
  LET user == getUser(map, id)
  IN IF user = {} THEN [users |-> map, ret |-> {}]
     ELSE LET updatedUser == Assign(CHOOSE u \in user : TRUE, updates)
          IN [users |-> MapSet(map, id, updatedUser), ret |-> {updatedUser}]

\* The verify callback up to its first await: the lookup has run and the
\* callback is suspended with its result. Callbacks are keyed by start time.
LoginLookup(profile, accessToken, refreshToken) ==
  /\ last.op = "none"
  /\ now <= MaxRequests
  /\ logins' = MapSet(logins, now,
                      [profile |-> profile, accessToken |-> accessToken,
                       refreshToken |-> refreshToken,
                       user |-> getUserByDiscordId(users, profile.id)])
  /\ now' = now + 1
  /\ UNCHANGED <<guilds, nextId, last, children, files, writes, userGuilds, reconciling>>

\* The callback resumes after the lookup: create or update, then done(null, user).
LoginUpsert(n) ==
  /\ n \in DOMAIN logins
  /\ last.op = "none"
  /\ LET l == logins[n]
     IN IF l.user = {}
        THEN LET c == createUser(users,
                        [discordId |-> l.profile.id, username |-> l.profile.username,
                         discriminator |-> {l.profile.discriminator},
                         avatar |-> {l.profile.avatar},
                         accessToken |-> {l.accessToken},
                         refreshToken |-> {l.refreshToken},
                         tokenExpires |-> {now + SevenDays}], nextId, now)
             IN /\ users' = c.users
                /\ nextId' = nextId + 1
                /\ last' = [Idle EXCEPT !.op = "login", !.status = 200, !.key = nextId,
                                        !.caller = l.profile.id,
                                        !.res = <<CHOOSE u \in c.ret : TRUE>>]
        ELSE LET user == CHOOSE u \in l.user : TRUE
                 u == updateUser(users, user.id,
                        [NoUserUpdates EXCEPT
                           !["username"] = {l.profile.username},
                           !["discriminator"] = {l.profile.discriminator},
                           !["avatar"] = {l.profile.avatar},
                           !["accessToken"] = {l.accessToken},
                           !["refreshToken"] = {l.refreshToken},
                           !["tokenExpires"] = {{now + SevenDays}}])
             IN /\ users' = u.users
                /\ nextId' = nextId
                /\ last' = [Idle EXCEPT !.op = "login", !.status = 200, !.key = user.id,
                                        !.caller = l.profile.id,
                                        !.res = IF u.ret = {} THEN <<>>
                                                ELSE <<CHOOSE r \in u.ret : TRUE>>]
  /\ logins' = [m \in DOMAIN logins \ {n} |-> logins[m]]
  /\ UNCHANGED <<guilds, now, attendanceEvents, forms, giveaways, twitchStreamers,
                 files, writes, userGuilds, reconciling>>

\* The partials handed to storage.updateUser by a caller of the store.
UserPartials ==
  {NoUserUpdates}
    \cup { [NoUserUpdates EXCEPT !["username"] = {"cat"}] }
    \cup { [NoUserUpdates EXCEPT !["discordId"] = {d}] : d \in UserIds }

UpdateUser(id, updates) ==
  /\ last.op = "none"
  /\ now <= MaxRequests
  /\ LET u == updateUser(users, id, updates)
     IN /\ users' = u.users
        /\ last' = [Idle EXCEPT !.op = "updateUser", !.key = id,
                                !.status = IF u.ret = {} THEN 404 ELSE 200,
                                !.res = IF u.ret = {} THEN <<>>
                                        ELSE <<CHOOSE r \in u.ret : TRUE>>]
  /\ now' = now + 1
  /\ UNCHANGED <<guilds, nextId, attendanceEvents, forms, giveaways, twitchStreamers,
                 outside>>

NextUsers ==
  \/ \E p \in Profiles : LoginLookup(p, "at", "rt")
  \/ \E n \in DOMAIN logins : LoginUpsert(n)
  \/ \E k \in DOMAIN users \cup {JunkId}, b \in UserPartials : UpdateUser(k, b)
  \/ Finish

SpecUsers == Init /\ [][NextUsers]_vars

\* ------------------------------------------------------------ child kinds
\* A field the create method does not default is missing from the stored
\* object when the partial omits it; such a field is modelled as a set, {} for
\* undefined and {v} for the value v. A Date | null field is {} for null.
\* The guild references clients pass (req.params.guildId): the first two
\* identifiers the generator issues, each the id of a stored Guild, the id of
\* a record of another kind, or not issued yet.
GuildRefs == {1, 2}

AttendanceEventFields ==
  {"id", "guildId", "name", "description", "date", "isRecurring", "roles",
   "attendees", "channelId", "messageId", "createdAt"}
FormFields ==
  {"id", "guildId", "name", "description", "questions", "responses", "isActive",
   "createdAt"}
GiveawayFields ==
  {"id", "guildId", "title", "description", "prize", "winnerCount", "endsAt",
   "entries", "winners", "channelId", "messageId", "isActive", "createdAt"}
TwitchStreamerFields ==
  {"id", "guildId", "username", "isLive", "viewerCount", "gameName", "streamTitle",
   "lastChecked", "notificationChannelId", "createdAt"}

\* Array.from(map.values()): the records in insertion order
RECURSIVE ValuesFrom(_, _)
ValuesFrom(map, keys) ==
  IF keys = {} THEN <<>>
  ELSE <<map[Min(keys)]>> \o ValuesFrom(map, keys \ {Min(keys)})

Values(map) == ValuesFrom(map, DOMAIN map)

\* map.delete(id): the map without the key, and whether the key was there
MapDelete(map, id) ==
  [map |-> [k \in DOMAIN map \ {id} |-> map[k]], ret |-> id \in DOMAIN map]

\* Array.prototype.sort(compareFn): a stable sort; an element is placed before
\* the first element it compares below. compareFn is given by its values:
\* compare[a][b] is compareFn(array[a], array[b]).
sort(array, compare) ==
  LET Place(acc, x) ==
        LET below == {i \in 1..Len(acc) : compare[x][acc[i]] < 0}
            at == IF below = {} THEN Len(acc) + 1 ELSE Min(below)
        IN SubSeq(acc, 1, at - 1) \o <<x>> \o SubSeq(acc, at, Len(acc))
      RECURSIVE Fold(_, _)
      Fold(acc, k) == IF k > Len(array) THEN acc ELSE Fold(Place(acc, k), k + 1)
      order == Fold(<<>>, 1)
  IN [i \in 1..Len(array) |-> array[order[i]]]

\* The usernames of the model with their place in the collation order that
\* String.prototype.localeCompare uses: letters first, lower case before
\* upper case ("amy" < "bea" < "Bea"; by code unit "Bea" comes first).
Usernames == {"amy", "bea", "Bea"}
CollationRank(username) ==
  CASE username = "amy" -> 1
    [] username = "bea" -> 2
    [] username = "Bea" -> 3

localeCompare(a, b) == CollationRank(a) - CollationRank(b)

\* -- attendance events
\* Mutant of getGuildAttendanceEvents: the comparator's operands are swapped.
getGuildAttendanceEventsAscending(map, guildId) ==
  LET events == SelectSeq(Values(map), LAMBDA event : event.guildId = guildId)
  IN sort(events, [a \in 1..Len(events) |-> [b \in 1..Len(events) |->
                     events[a].date - events[b].date]])

getGuildAttendanceEvents(map, guildId) ==
  LET events == SelectSeq(Values(map), LAMBDA event : event.guildId = guildId)
  IN sort(events, [a \in 1..Len(events) |-> [b \in 1..Len(events) |->
                     events[b].date - events[a].date]])

getAttendanceEvent(map, id) == IF id \in DOMAIN map THEN {map[id]} ELSE {}

createAttendanceEvent(map, insertEvent, id, t) ==
  LET event ==
        [id |-> id,
         guildId |-> insertEvent.guildId,
         name |-> insertEvent.name,
         description |-> OrNull(insertEvent.description),
         date |-> insertEvent.date,
         isRecurring |-> insertEvent.isRecurring,
         roles |-> insertEvent.roles,
         attendees |-> insertEvent.attendees,
         channelId |-> OrNull(insertEvent.channelId),
         messageId |-> OrNull(insertEvent.messageId),
         createdAt |-> t]
  IN [map |-> MapSet(map, id, event), ret |-> {event}]

updateAttendanceEvent(map, id, updates) ==
  LET event == getAttendanceEvent(map, id)
  IN IF event = {} THEN [map |-> map, ret |-> {}]
     ELSE LET updatedEvent == Assign(CHOOSE e \in event : TRUE, updates)
          IN [map |-> MapSet(map, id, updatedEvent), ret |-> {updatedEvent}]

deleteAttendanceEvent(map, id) == MapDelete(map, id)

\* -- forms
getGuildForms(map, guildId) ==
  LET own == SelectSeq(Values(map), LAMBDA form : form.guildId = guildId)
  IN sort(own, [a \in 1..Len(own) |-> [b \in 1..Len(own) |->
                  own[b].createdAt - own[a].createdAt]])

getForm(map, id) == IF id \in DOMAIN map THEN {map[id]} ELSE {}

createForm(map, insertForm, id, t) ==
  LET form ==
        [id |-> id,
         guildId |-> insertForm.guildId,
         name |-> insertForm.name,
         description |-> OrNull(insertForm.description),
         questions |-> insertForm.questions,
         responses |-> insertForm.responses,
         isActive |-> insertForm.isActive,
         createdAt |-> t]
  IN [map |-> MapSet(map, id, form), ret |-> {form}]

\* Mutant of updateForm: the update defaults the description as createForm does.
updateFormDefaulting(map, id, updates) ==
  LET form == getForm(map, id)
  IN IF form = {} THEN [map |-> map, ret |-> {}]
     ELSE LET updatedForm == [Assign(CHOOSE f \in form : TRUE, updates)
                                EXCEPT !.description = OrNull(updates.description)]
          IN [map |-> MapSet(map, id, updatedForm), ret |-> {updatedForm}]

updateForm(map, id, updates) ==
  LET form == getForm(map, id)
  IN IF form = {} THEN [map |-> map, ret |-> {}]
     ELSE LET updatedForm == Assign(CHOOSE f \in form : TRUE, updates)
          IN [map |-> MapSet(map, id, updatedForm), ret |-> {updatedForm}]

\* Mutant of deleteForm: the result of Map.delete is dropped and true returned.
deleteFormAlwaysTrue(map, id) == [map |-> MapDelete(map, id).map, ret |-> TRUE]

deleteForm(map, id) == MapDelete(map, id)

\* -- giveaways
getGuildGiveaways(map, guildId) ==
  LET own == SelectSeq(Values(map), LAMBDA giveaway : giveaway.guildId = guildId)
  IN sort(own, [a \in 1..Len(own) |-> [b \in 1..Len(own) |->
                  own[b].createdAt - own[a].createdAt]])

getGiveaway(map, id) == IF id \in DOMAIN map THEN {map[id]} ELSE {}

\* Mutant of createGiveaway: the key is the next number of the collection
\* instead of the identifier that randomUUID() returned.
createGiveawayNumbered(map, insertGiveaway, id, t) ==
  LET number == Cardinality(DOMAIN map) + 1
      giveaway ==
        [id |-> number,
         guildId |-> insertGiveaway.guildId,
         title |-> insertGiveaway.title,
         description |-> OrNull(insertGiveaway.description),
         prize |-> insertGiveaway.prize,
         winnerCount |-> insertGiveaway.winnerCount,
         endsAt |-> insertGiveaway.endsAt,
         entries |-> insertGiveaway.entries,
         winners |-> insertGiveaway.winners,
         channelId |-> OrNull(insertGiveaway.channelId),
         messageId |-> OrNull(insertGiveaway.messageId),
         isActive |-> insertGiveaway.isActive,
         createdAt |-> t]
  IN [map |-> MapSet(map, number, giveaway), ret |-> {giveaway}]

createGiveaway(map, insertGiveaway, id, t) ==
  LET giveaway ==
        [id |-> id,
         guildId |-> insertGiveaway.guildId,
         title |-> insertGiveaway.title,
         description |-> OrNull(insertGiveaway.description),
         prize |-> insertGiveaway.prize,
         winnerCount |-> insertGiveaway.winnerCount,
         endsAt |-> insertGiveaway.endsAt,
         entries |-> insertGiveaway.entries,
         winners |-> insertGiveaway.winners,
         channelId |-> OrNull(insertGiveaway.channelId),
         messageId |-> OrNull(insertGiveaway.messageId),
         isActive |-> insertGiveaway.isActive,
         createdAt |-> t]
  IN [map |-> MapSet(map, id, giveaway), ret |-> {giveaway}]

\* Mutant of updateGiveaway: no test for a missing record, so the updates are
\* stored under the id as a new record.
updateGiveawayUpserting(map, id, updates) ==
  LET giveaway == getGiveaway(map, id)
      updatedGiveaway ==
        IF giveaway = {} THEN updates ELSE Assign(CHOOSE g \in giveaway : TRUE, updates)
  IN [map |-> MapSet(map, id, updatedGiveaway), ret |-> {updatedGiveaway}]

\* Mutant of updateGiveaway: the stored record is replaced by the updates, so
\* an optional field that is not supplied is lost.
updateGiveawayReplacing(map, id, updates) ==
  LET giveaway == getGiveaway(map, id)
  IN IF giveaway = {} THEN [map |-> map, ret |-> {}]
     ELSE LET assigned == Assign(CHOOSE g \in giveaway : TRUE, updates)
              updatedGiveaway ==
                [f \in DOMAIN assigned |->
                   IF f \in {"winnerCount", "entries", "winners", "isActive"}
                        /\ updates[f] = {}
                   THEN {} ELSE assigned[f]]
          IN [map |-> MapSet(map, id, updatedGiveaway), ret |-> {updatedGiveaway}]

updateGiveaway(map, id, updates) ==
  LET giveaway == getGiveaway(map, id)
  IN IF giveaway = {} THEN [map |-> map, ret |-> {}]
     ELSE LET updatedGiveaway == Assign(CHOOSE g \in giveaway : TRUE, updates)
          IN [map |-> MapSet(map, id, updatedGiveaway), ret |-> {updatedGiveaway}]

deleteGiveaway(map, id) == MapDelete(map, id)

\* -- twitch streamers
getGuildTwitchStreamers(map, guildId) ==
  LET own == SelectSeq(Values(map), LAMBDA streamer : streamer.guildId = guildId)
  IN sort(own, [a \in 1..Len(own) |-> [b \in 1..Len(own) |->
                  localeCompare(own[a].username, own[b].username)]])

getTwitchStreamer(map, id) == IF id \in DOMAIN map THEN {map[id]} ELSE {}

createTwitchStreamer(map, insertStreamer, id, t) ==
  LET streamer ==
        [id |-> id,
         guildId |-> insertStreamer.guildId,
         username |-> insertStreamer.username,
         isLive |-> insertStreamer.isLive,
         viewerCount |-> insertStreamer.viewerCount,
         gameName |-> OrNull(insertStreamer.gameName),
         streamTitle |-> OrNull(insertStreamer.streamTitle),
         lastChecked |-> insertStreamer.lastChecked,
         notificationChannelId |-> OrNull(insertStreamer.notificationChannelId),
         createdAt |-> t]
  IN [map |-> MapSet(map, id, streamer), ret |-> {streamer}]

updateTwitchStreamer(map, id, updates) ==
  LET streamer == getTwitchStreamer(map, id)
  IN IF streamer = {} THEN [map |-> map, ret |-> {}]
     ELSE LET updatedStreamer == Assign(CHOOSE r \in streamer : TRUE, updates)
          IN [map |-> MapSet(map, id, updatedStreamer), ret |-> {updatedStreamer}]

deleteTwitchStreamer(map, id) == MapDelete(map, id)

\* ------------------------------------------------------------ the store's clients
Kinds == {"users", "guilds", "attendanceEvents", "forms", "giveaways", "twitchStreamers"}
ChildKinds == {"attendanceEvents", "forms", "giveaways", "twitchStreamers"}

Fields(kind) ==
  CASE kind = "users" -> UserFields
    [] kind = "guilds" -> GuildFields
    [] kind = "attendanceEvents" -> AttendanceEventFields
    [] kind = "forms" -> FormFields
    [] kind = "giveaways" -> GiveawayFields
    [] kind = "twitchStreamers" -> TwitchStreamerFields

Collection(kind) ==
  CASE kind = "users" -> users
    [] kind = "guilds" -> guilds
    [] kind = "attendanceEvents" -> attendanceEvents
    [] kind = "forms" -> forms
    [] kind = "giveaways" -> giveaways
    [] kind = "twitchStreamers" -> twitchStreamers

\* The partials handed to the create methods. The dashboard's forms post "" for
\* a description left empty; a bare partial carries the required fields only.
InsertUsers ==
  { [discordId |-> "u1", username |-> "ann", discriminator |-> {"0"}, avatar |-> {Null},
     accessToken |-> {"at"}, refreshToken |-> {"rt"}, tokenExpires |-> {SevenDays}],
    [discordId |-> "u2", username |-> "bob", discriminator |-> {}, avatar |-> {},
     accessToken |-> {}, refreshToken |-> {}, tokenExpires |-> {}] }

InsertGuilds ==
  { NewGuildFields(Entry("g1", Owner0, Shape0), "u1"),
    [NewGuildFields(Entry("g2", Owner0, Shape0), "u2") EXCEPT !.settings = {SomeSettings}] }

InsertAttendanceEvents ==
  UNION { { [guildId |-> g, name |-> "raid", description |-> {""}, date |-> 10,
             isRecurring |-> {FALSE}, roles |-> {<<>>}, attendees |-> {<<>>},
             channelId |-> {}, messageId |-> {}],
            [guildId |-> g, name |-> "trial", description |-> {}, date |-> 20,
             isRecurring |-> {}, roles |-> {}, attendees |-> {},
             channelId |-> {"c1"}, messageId |-> {}] } : g \in GuildRefs }

InsertForms ==
  UNION { { [guildId |-> g, name |-> "apply", description |-> {""},
             questions |-> {<<>>}, responses |-> {}, isActive |-> {TRUE}],
            [guildId |-> g, name |-> "poll", description |-> {"about"},
             questions |-> {}, responses |-> {}, isActive |-> {}] } : g \in GuildRefs }

InsertGiveaways ==
  UNION { { [guildId |-> g, title |-> "nitro", description |-> {""}, prize |-> "nitro",
             winnerCount |-> {1}, endsAt |-> 30, entries |-> {}, winners |-> {},
             channelId |-> {}, messageId |-> {}, isActive |-> {}],
            [guildId |-> g, title |-> "keys", description |-> {"two keys"}, prize |-> "key",
             winnerCount |-> {}, endsAt |-> 40, entries |-> {<<>>}, winners |-> {<<>>},
             channelId |-> {"c1"}, messageId |-> {"m1"}, isActive |-> {TRUE}] } : g \in GuildRefs }

InsertTwitchStreamers ==
  { [guildId |-> g, username |-> n, isLive |-> {}, viewerCount |-> {},
     gameName |-> {}, streamTitle |-> {}, lastChecked |-> {},
     notificationChannelId |-> IF n = "amy" THEN {"c1"} ELSE {}] :
      g \in GuildRefs, n \in Usernames }

Inserts(kind) ==
  CASE kind = "users" -> InsertUsers
    [] kind = "guilds" -> InsertGuilds
    [] kind = "attendanceEvents" -> InsertAttendanceEvents
    [] kind = "forms" -> InsertForms
    [] kind = "giveaways" -> InsertGiveaways
    [] kind = "twitchStreamers" -> InsertTwitchStreamers

\* The partials handed to the update methods: the empty object and objects
\* with one field.
Nothing(kind) == [f \in Fields(kind) |-> {}]

Partials(kind) ==
  {Nothing(kind)} \cup
  CASE kind = "users" -> { [Nothing(kind) EXCEPT !["username"] = {"cat"}] }
    [] kind = "guilds" -> { [Nothing(kind) EXCEPT !["settings"] = {{<<"prefix", "?">>}}],
                            [Nothing(kind) EXCEPT !["botJoined"] = {TRUE}] }
    [] kind = "attendanceEvents" -> { [Nothing(kind) EXCEPT !["date"] = {20}],
                                      [Nothing(kind) EXCEPT !["guildId"] = {2}] }
    [] kind = "forms" -> { [Nothing(kind) EXCEPT !["isActive"] = {{FALSE}}],
                           [Nothing(kind) EXCEPT !["createdAt"] = {1}],
                           [Nothing(kind) EXCEPT !["id"] = {JunkId}] }
    [] kind = "giveaways" -> { [Nothing(kind) EXCEPT !["isActive"] = {{FALSE}}],
                               [Nothing(kind) EXCEPT !["guildId"] = {2}] }
    [] kind = "twitchStreamers" -> { [Nothing(kind) EXCEPT !["username"] = {"amy"}],
                                     [Nothing(kind) EXCEPT !["isLive"] = {{TRUE}}] }

\* storage.create<Kind>(insert): the new collection and the returned record
create(kind, insert, id, t) ==
  CASE kind = "users" ->
         LET c == createUser(users, insert, id, t) IN [map |-> c.users, ret |-> c.ret]
    [] kind = "guilds" ->
         LET c == createGuild(guilds, insert, id, t) IN [map |-> c.guilds, ret |-> c.ret]
    [] kind = "attendanceEvents" -> createAttendanceEvent(attendanceEvents, insert, id, t)
    [] kind = "forms" -> createForm(forms, insert, id, t)
    [] kind = "giveaways" -> createGiveaway(giveaways, insert, id, t)
    [] kind = "twitchStreamers" -> createTwitchStreamer(twitchStreamers, insert, id, t)

\* storage.update<Kind>(id, updates)
update(kind, id, updates) ==
  CASE kind = "users" ->
         LET u == updateUser(users, id, updates) IN [map |-> u.users, ret |-> u.ret]
    [] kind = "guilds" ->
         LET u == updateGuild(guilds, id, updates) IN [map |-> u.guilds, ret |-> u.ret]
    [] kind = "attendanceEvents" -> updateAttendanceEvent(attendanceEvents, id, updates)
    [] kind = "forms" -> updateForm(forms, id, updates)
    [] kind = "giveaways" -> updateGiveaway(giveaways, id, updates)
    [] kind = "twitchStreamers" -> updateTwitchStreamer(twitchStreamers, id, updates)

\* storage.delete<Kind>(id)
delete(kind, id) ==
  CASE kind = "attendanceEvents" -> deleteAttendanceEvent(attendanceEvents, id)
    [] kind = "forms" -> deleteForm(forms, id)
    [] kind = "giveaways" -> deleteGiveaway(giveaways, id)
    [] kind = "twitchStreamers" -> deleteTwitchStreamer(twitchStreamers, id)

\* storage.get<Kind>(id)
get(kind, id) ==
  CASE kind = "users" -> getUser(users, id)
    [] kind = "guilds" -> getGuild(guilds, id)
    [] kind = "attendanceEvents" -> getAttendanceEvent(attendanceEvents, id)
    [] kind = "forms" -> getForm(forms, id)
    [] kind = "giveaways" -> getGiveaway(giveaways, id)
    [] kind = "twitchStreamers" -> getTwitchStreamer(twitchStreamers, id)

\* storage.getGuild<Kind>s(guildId)
list(kind, guildId) ==
  CASE kind = "attendanceEvents" -> getGuildAttendanceEvents(attendanceEvents, guildId)
    [] kind = "forms" -> getGuildForms(forms, guildId)
    [] kind = "giveaways" -> getGuildGiveaways(giveaways, guildId)
    [] kind = "twitchStreamers" -> getGuildTwitchStreamers(twitchStreamers, guildId)

\* Mutant of Store: the store keeps the references whole, dropping every
\* child record whose guildId is the id of no stored Guild.
StoreEnforcingReferences(kind, map) ==
  LET after == IF kind = "guilds" THEN map ELSE guilds
      Kept(k, m) == [id \in {i \in DOMAIN m : m[i].guildId \in DOMAIN after} |-> m[id]]
      Child(k, m) == Kept(k, IF kind = k THEN map ELSE m)
  IN /\ users' = IF kind = "users" THEN map ELSE users
     /\ guilds' = after
     /\ attendanceEvents' = Child("attendanceEvents", attendanceEvents)
     /\ forms' = Child("forms", forms)
     /\ giveaways' = Child("giveaways", giveaways)
     /\ twitchStreamers' = Child("twitchStreamers", twitchStreamers)

\* this.<kind>.set / delete: the one collection of the kind is replaced
Store(kind, map) ==
  /\ users' = IF kind = "users" THEN map ELSE users
  /\ guilds' = IF kind = "guilds" THEN map ELSE guilds
  /\ attendanceEvents' = IF kind = "attendanceEvents" THEN map ELSE attendanceEvents
  /\ forms' = IF kind = "forms" THEN map ELSE forms
  /\ giveaways' = IF kind = "giveaways" THEN map ELSE giveaways
  /\ twitchStreamers' = IF kind = "twitchStreamers" THEN map ELSE twitchStreamers

Create(kind, insert) ==
  /\ last.op = "none"
  /\ now <= MaxRequests
  /\ LET c == create(kind, insert, nextId, now)
     IN /\ Store(kind, c.map)
        /\ last' = [Idle EXCEPT !.op = "create", !.kind = kind, !.key = nextId,
                                !.body = insert, !.res = <<CHOOSE r \in c.ret : TRUE>>]
  /\ nextId' = nextId + 1
  /\ now' = now + 1
  /\ UNCHANGED outside

Update(kind, id, updates) ==
  /\ last.op = "none"
  /\ now <= MaxRequests
  /\ LET u == update(kind, id, updates)
     IN /\ Store(kind, u.map)
        /\ last' = [Idle EXCEPT !.op = "update", !.kind = kind, !.key = id,
                                !.body = updates,
                                !.res = IF u.ret = {} THEN <<>>
                                        ELSE <<CHOOSE r \in u.ret : TRUE>>]
  /\ now' = now + 1
  /\ UNCHANGED <<nextId, outside>>

Delete(kind, id) ==
  /\ last.op = "none"
  /\ now <= MaxRequests
  /\ LET d == delete(kind, id)
     IN /\ Store(kind, d.map)
        /\ last' = [Idle EXCEPT !.op = "delete", !.kind = kind, !.key = id,
                                !.res = <<d.ret>>]
  /\ now' = now + 1
  /\ UNCHANGED <<nextId, outside>>

Get(kind, id) ==
  /\ last.op = "none"
  /\ now <= MaxRequests
  /\ LET g == get(kind, id)
     IN last' = [Idle EXCEPT !.op = "get", !.kind = kind, !.key = id,
                             !.res = IF g = {} THEN <<>> ELSE <<CHOOSE r \in g : TRUE>>]
  /\ now' = now + 1
  /\ UNCHANGED <<guilds, nextId, children, outside>>

List(kind, guildId) ==
  /\ last.op = "none"
  /\ now <= MaxRequests
  /\ last' = [Idle EXCEPT !.op = "list", !.kind = kind, !.caller = guildId,
                          !.res = list(kind, guildId)]
  /\ now' = now + 1
  /\ UNCHANGED <<guilds, nextId, children, outside>>

\* The ids a client can pass: every id issued so far, of any kind and whether
\* or not its record is still stored, and a string that is no id.
KnownIds == (1..(nextId - 1)) \cup {JunkId}

NextStore ==
  \/ \E kind \in Kinds : \E insert \in Inserts(kind) : Create(kind, insert)
  \/ \E kind \in Kinds : \E id \in KnownIds :
       \E updates \in Partials(kind) : Update(kind, id, updates)
  \/ \E kind \in ChildKinds : \E id \in KnownIds : Delete(kind, id)
  \/ \E kind \in Kinds : \E id \in KnownIds : Get(kind, id)
  \/ \E kind \in ChildKinds : \E guildId \in GuildRefs : List(kind, guildId)
  \/ Finish

SpecStore == Init /\ [][NextStore]_vars

\* ------------------------------------------------------------ database files
\* A path is the sequence of its segments. A file's content, and the text
\* JSON.stringify produces, is a sequence of tokens, each a tuple: <<"{}">> for
\* the empty object, and otherwise <<"{">>, one token per member (key, value,
\* and the comma that follows or ""), <<"}">>.
databasePath == <<"cwd", "databases">>

\* path.join(...): the segments concatenated, with every ".." taking back the
\* segment before it
RECURSIVE normalize(_, _)
normalize(done, rest) ==
  IF rest = <<>> THEN done
  ELSE IF Head(rest) = ".."
       THEN normalize(IF done = <<>> THEN <<>> ELSE SubSeq(done, 1, Len(done) - 1), Tail(rest))
       ELSE normalize(Append(done, Head(rest)), Tail(rest))

join(base, filename) == normalize(<<>>, base \o filename)

\* The :filename parameters of the model (Express decodes %2F in a parameter).
Filenames == {<<"a.json">>, <<"..", "a.json">>, <<"x", "..", "a.json">>}

\* The request bodies of the model: objects of zero, one and two members.
Documents ==
  {<<>>, <<<<"k", "1">>>>, <<<<"k", "2">>, <<"m", "3">>>>}

\* JSON.stringify(data, null, 2)
stringify(data) ==
  IF data = <<>> THEN << <<"{}">> >>
  ELSE << <<"{">> >>
         \o [i \in 1..Len(data) |->
               <<data[i][1], data[i][2], IF i < Len(data) THEN "," ELSE "">>]
         \o << <<"}">> >>

\* JSON.parse(data): the document of a well-formed text (a key that occurs
\* twice keeps its first place and its last value), a SyntaxError otherwise.
parse(text) ==
  LET n == Len(text)
      members == SubSeq(text, 2, n - 1)
      wellFormed ==
        /\ n >= 2
        /\ text[1] = <<"{">>
        /\ text[n] = <<"}">>
        /\ \A i \in 1..Len(members) :
              /\ Len(members[i]) = 3
              /\ members[i][3] = (IF i < Len(members) THEN "," ELSE "")
      First(i) == \A j \in 1..(i - 1) : members[j][1] /= members[i][1]
      LastOf(key) ==
        CHOOSE i \in 1..Len(members) :
          /\ members[i][1] = key
          /\ \A j \in (i + 1)..Len(members) : members[j][1] /= key
      firsts == SelectSeq([i \in 1..Len(members) |-> i], First)
  IN IF text = << <<"{}">> >> THEN [error |-> "", value |-> <<>>]
     ELSE IF wellFormed
          THEN [error |-> "",
                value |-> [i \in 1..Len(firsts) |->
                             <<members[firsts[i]][1], members[LastOf(members[firsts[i]][1])][2]>>]]
          ELSE [error |-> "SyntaxError", value |-> <<>>]

\* write(fd, chunk) at the descriptor's offset: the chunk replaces what the
\* file holds from the offset on, as far as the chunk reaches; a gap between
\* the end of the file and the offset reads as NUL.
pwrite(content, offset, chunk) ==
  LET end == offset + Len(chunk)
      size == IF Len(content) > end THEN Len(content) ELSE end
  IN [i \in 1..size |->
        IF i > offset /\ i <= end THEN chunk[i - offset]
        ELSE IF i <= Len(content) THEN content[i]
        ELSE <<"NUL">>]

\* writeDatabaseFile up to the open inside fs.writeFile: the path is joined,
\* the data serialized, and the file opened with flag 'w', which creates or
\* truncates it. The call is keyed by its start time; overlapped records
\* whether another writeFile on the same path was in flight at that time.
WriteOpen(filename, data) ==
  /\ last.op = "none"
  /\ now <= MaxRequests
  /\ LET filePath == join(databasePath, filename)
     IN /\ files' = MapSet(files, filePath, <<>>)
        /\ writes' = MapSet(writes, now,
                            [filename |-> filename, filePath |-> filePath, data |-> data,
                             text |-> stringify(data), offset |-> 0, state |-> "open",
                             overlapped |->
                               \E m \in DOMAIN writes :
                                 /\ writes[m].filePath = filePath
                                 /\ writes[m].state = "open"])
  /\ now' = now + 1
  /\ UNCHANGED <<guilds, nextId, last, children, logins, userGuilds, reconciling>>

\* One write(fd, ...) of fs.writeFile: the system call takes some non-empty
\* prefix of the text that is left.
WriteChunk(n, length) ==
  /\ n \in DOMAIN writes
  /\ writes[n].state = "open"
  /\ length \in 1..(Len(writes[n].text) - writes[n].offset)
  /\ LET w == writes[n]
         chunk == SubSeq(w.text, w.offset + 1, w.offset + length)
     IN /\ files' = [files EXCEPT ![w.filePath] = pwrite(@, w.offset, chunk)]
        /\ writes' = [writes EXCEPT ![n].offset = @ + length]
  /\ UNCHANGED <<guilds, nextId, now, last, children, logins, userGuilds, reconciling>>

\* All text is written: the file is closed, writeDatabaseFile resolves and the
\* route answers "Database file updated".
WriteClose(n) ==
  /\ n \in DOMAIN writes
  /\ last.op = "none"
  /\ writes[n].state = "open"
  /\ writes[n].offset = Len(writes[n].text)
  /\ writes' = [writes EXCEPT ![n].state = "closed"]
  /\ last' = [Idle EXCEPT !.op = "writeDatabaseFile", !.status = 200, !.key = n]
  /\ UNCHANGED <<guilds, nextId, now, children, logins, files, userGuilds, reconciling>>

\* A write(fd, ...) fails: the catch block logs and rethrows, the route
\* answers 500; the file keeps what was written so far.
WriteFail(n) ==
  /\ n \in DOMAIN writes
  /\ last.op = "none"
  /\ writes[n].state = "open"
  /\ writes[n].offset < Len(writes[n].text)
  /\ writes' = [writes EXCEPT ![n].state = "failed"]
  /\ last' = [Idle EXCEPT !.op = "writeDatabaseFile", !.status = 500, !.key = n]
  /\ UNCHANGED <<guilds, nextId, now, children, logins, files, userGuilds, reconciling>>

\* What open and read of fs.readFile can answer besides success.
Errnos == {"", "EACCES"}

\* readDatabaseFileSwallowing: every failure answered with an empty document
readDatabaseFileSwallowing(disk, filename, errno) ==
  LET filePath == join(databasePath, filename)
  IN IF filePath \notin DOMAIN disk \/ errno /= "" THEN [error |-> "", value |-> <<>>]
     ELSE [error |-> "", value |-> parse(disk[filePath]).value]

\* readDatabaseFile: ENOENT becomes the empty object, every other error of
\* fs.readFile and the SyntaxError of JSON.parse are thrown again.
readDatabaseFile(disk, filename, errno) ==
  LET filePath == join(databasePath, filename)
  IN IF filePath \notin DOMAIN disk THEN [error |-> "", value |-> <<>>]
     ELSE IF errno /= "" THEN [error |-> errno, value |-> <<>>]
     ELSE parse(disk[filePath])

\* GET /api/database/:filename. The files of the model are read by one
\* read(fd, ...), so what a read returns is what the file holds at one moment.
ReadFile(filename, errno) ==
  /\ last.op = "none"
  /\ now <= MaxRequests
  /\ LET data == readDatabaseFile(files, filename, errno)
     IN last' = [Idle EXCEPT !.op = "readDatabaseFile",
                             !.status = IF data.error = "" THEN 200 ELSE 500,
                             !.filename = filename,
                             !.error = data.error,
                             !.res = data.value]
  /\ now' = now + 1
  /\ UNCHANGED <<guilds, nextId, children, logins, files, writes, userGuilds, reconciling>>

NextFiles ==
  \/ \E filename \in Filenames, data \in Documents : WriteOpen(filename, data)
  \/ \E filename \in Filenames, errno \in Errnos : ReadFile(filename, errno)
  \/ \E n \in DOMAIN writes : \E length \in 1..4 : WriteChunk(n, length)
  \/ \E n \in DOMAIN writes : WriteClose(n)
  \/ \E n \in DOMAIN writes : WriteFail(n)
  \/ Finish

SpecFiles == Init /\ [][NextFiles]_vars

\* ------------------------------------------------------------ GET /api/guilds, await by await
\* The handler of GET /api/guilds awaits every storage call, so the handlers
\* of two requests take turns at these awaits. A handler in flight is keyed by
\* its start time and holds the entries still to do (the first is the one in
\* hand), what the awaited call returned, and the guilds array it collects.
MaxInFlight == 2

\* The rosters of the handlers that run together: every community as an entry
\* that passes the filter and as one that does not.
RaceEntries ==
  { Entry(d, a, Shape0) : d \in DiscordIds,
                          a \in {Owner0, [owner |-> FALSE, permissions |-> 0]} }

RaceRosters == SeqsUpTo(RaceEntries, MaxRoster)

ReconcileRespond(n, userDiscordId, discordGuilds, out) ==
  /\ last.op = "none"
  /\ last' = [Idle EXCEPT !.op = "getGuilds", !.status = 200, !.key = n,
                          !.caller = userDiscordId, !.roster = discordGuilds,
                          !.res = out]
  /\ reconciling' = [m \in DOMAIN reconciling \ {n} |-> reconciling[m]]

\* From the resolved fetch to the first await in the loop: the roster is
\* filtered and getGuildByDiscordId is called for the first entry; with no
\* entry left the handler answers [].
ReconcileBegin(userDiscordId, discordGuilds) ==
  /\ now <= MaxRequests
  /\ Cardinality(DOMAIN reconciling) < MaxInFlight
  /\ LET admin == adminGuilds(discordGuilds)
     IN IF admin = <<>>
        THEN ReconcileRespond(now, userDiscordId, discordGuilds, <<>>)
        ELSE /\ reconciling' =
                  MapSet(reconciling, now,
                         [caller |-> userDiscordId, roster |-> discordGuilds,
                          rest |-> admin, at |-> "lookup",
                          ret |-> getGuildByDiscordId(guilds, Head(admin).id),
                          out |-> <<>>])
             /\ last' = last
  /\ now' = now + 1
  /\ UNCHANGED <<guilds, nextId, children, logins, files, writes, userGuilds>>

\* The lookup has resolved: createGuild or updateGuild is called with what the
\* lookup returned, and awaited.
ReconcileUpsert(n) ==
  /\ n \in DOMAIN reconciling
  /\ reconciling[n].at = "lookup"
  /\ LET r == reconciling[n]
         discordGuild == Head(r.rest)
         u == IF r.ret = {}
              THEN createGuild(guilds, NewGuildFields(discordGuild, r.caller), nextId, now)
              ELSE LET guild == CHOOSE g \in r.ret : TRUE
                   IN updateGuild(guilds, guild.id, RefreshFields(discordGuild, guild))
     IN /\ guilds' = u.guilds
        /\ nextId' = IF r.ret = {} THEN nextId + 1 ELSE nextId
        /\ reconciling' = [reconciling EXCEPT ![n].at = "upsert", ![n].ret = u.ret]
  /\ UNCHANGED <<now, last, children, logins, files, writes, userGuilds>>

\* The upsert has resolved: the guild is pushed, and the loop goes on to the
\* lookup of the next entry or, with none left, to res.json(guilds).
ReconcileNext(n) ==
  /\ n \in DOMAIN reconciling
  /\ reconciling[n].at = "upsert"
  /\ LET r == reconciling[n]
         out == IF r.ret = {} THEN r.out ELSE Append(r.out, CHOOSE g \in r.ret : TRUE)
         rest == Tail(r.rest)
     IN IF rest = <<>>
        THEN ReconcileRespond(n, r.caller, r.roster, out)
        ELSE /\ reconciling' =
                  [reconciling EXCEPT ![n].at = "lookup", ![n].rest = rest, ![n].out = out,
                                      ![n].ret = getGuildByDiscordId(guilds, Head(rest).id)]
             /\ last' = last
  /\ UNCHANGED <<guilds, nextId, now, children, logins, files, writes, userGuilds>>

NextReconcile ==
  \/ \E u \in Callers, r \in RaceRosters : ReconcileBegin(u, r)
  \/ \E n \in DOMAIN reconciling : ReconcileUpsert(n)
  \/ \E n \in DOMAIN reconciling : ReconcileNext(n)
  \/ Finish

SpecReconcile == Init /\ [][NextReconcile]_vars

\* ------------------------------------------------------------ the routes behind requireAuth
\* The requests of one run of the routes taken together.
MaxRouteRequests == 2

\* requireAuthPassing: next() is called for every request
requireAuthPassing(isAuthenticated) == TRUE

\* requireAuth: whether next() is called
requireAuth(isAuthenticated) == isAuthenticated

\* res.status(401).json({ message: 'Authentication required' })
Unauthorized(op, kind) ==
  /\ last.op = "none"
  /\ last' = [Idle EXCEPT !.op = op, !.kind = kind, !.status = 401]
  /\ now' = now + 1
  /\ UNCHANGED <<guilds, nextId, children, outside>>

\* app.<method>(path, requireAuth, handler)
Guarded(isAuthenticated, op, kind, handler) ==
  /\ now <= MaxRouteRequests
  /\ IF requireAuth(isAuthenticated) THEN handler ELSE Unauthorized(op, kind)

\* One request to a route of the guild, attendance, form, giveaway, twitch
\* and database groups, made with or without an authenticated session.
RouteRequest(isAuthenticated) ==
  \/ Guarded(isAuthenticated, "getGuilds", "guilds",
             \E u \in Callers : \/ \E r \in Rosters : GetGuilds(u, r)
                                 \/ GetGuildsFetchFailed(u))
  \/ Guarded(isAuthenticated, "get", "guilds",
             \E id \in KnownIds : Get("guilds", id))
  \/ Guarded(isAuthenticated, "patchGuild", "guilds",
             \E k \in DOMAIN guilds \cup {JunkId}, b \in Bodies : PatchGuild(k, b))
  \/ \E kind \in ChildKinds :
       \/ Guarded(isAuthenticated, "list", kind,
                  \E guildId \in GuildRefs : List(kind, guildId))
       \/ Guarded(isAuthenticated, "create", kind,
                  \E insert \in Inserts(kind) : Create(kind, insert))
       \/ Guarded(isAuthenticated, "delete", kind,
                  \E id \in KnownIds : Delete(kind, id))
  \/ \E kind \in ChildKinds \ {"twitchStreamers"} :
       Guarded(isAuthenticated, "update", kind,
               \E id \in KnownIds : \E updates \in Partials(kind) : Update(kind, id, updates))
  \/ Guarded(isAuthenticated, "readDatabaseFile", "",
             \E filename \in Filenames, errno \in Errnos : ReadFile(filename, errno))
  \/ Guarded(isAuthenticated, "writeDatabaseFile", "",
             \E filename \in Filenames, data \in Documents : WriteOpen(filename, data))

NextRoutes ==
  \/ \E isAuthenticated \in BOOLEAN : RouteRequest(isAuthenticated)
  \/ \E n \in DOMAIN writes : \E length \in 1..4 : WriteChunk(n, length)
  \/ \E n \in DOMAIN writes : WriteClose(n)
  \/ \E n \in DOMAIN writes : WriteFail(n)
  \/ Finish

SpecRoutes == Init /\ [][NextRoutes]_vars

\* ================================================================ claims
\* The test the specification states for a roster entry, written without the
\* handler's operators: owner flag, or bit 3 of the permission bitmask.
HasAdminBit(permissions) == (permissions \div 8) % 2 = 1
Passes(entry) == entry.owner \/ HasAdminBit(entry.permissions)
Survivors(roster) == SelectSeq(roster, Passes)
SurvivingIds(roster) == {roster[j].id : j \in {i \in 1..Len(roster) : Passes(roster[i])}}
KeysOf(map, d) == {k \in DOMAIN map : map[k].discordId = d}
Reconciled == last.op = "getGuilds" /\ last.status = 200

\* C1: the response of GET /api/guilds holds a guild with community id d if
\* and only if some roster entry with id d is flagged owner or has the
\* administrator bit set in its permission bitmask.
C1_ReturnedIffOwnerOrAdmin ==
  Reconciled =>
    \A d \in DiscordIds :
      (\E i \in 1..Len(last.res) : last.res[i].discordId = d)
        <=> d \in SurvivingIds(last.roster)

\* C2: one reconciliation neither creates a Guild for, nor changes a stored
\* Guild of, a community id whose roster entries all fail the test.
C2_FailingEntryNotPersisted ==
  [][ (last'.op = "getGuilds" /\ last'.status = 200) =>
        \A j \in 1..Len(last'.roster) :
          LET d == last'.roster[j].id
          IN d \notin SurvivingIds(last'.roster) =>
               /\ KeysOf(guilds', d) = KeysOf(guilds, d)
               /\ \A k \in KeysOf(guilds, d) : guilds'[k] = guilds[k] ]_vars

\* C3: no two stored Guild records have the same discordId.
C3_DiscordIdUnique ==
  \A k1 \in DOMAIN guilds, k2 \in DOMAIN guilds :
    guilds[k1].discordId = guilds[k2].discordId => k1 = k2

\* The truthy member counts of the surviving entries for community d, in
\* roster order.
TruthyCounts(roster, d) ==
  SelectSeq(roster, LAMBDA e : e.id = d /\ Passes(e) /\ OrElse(e.approximate_member_count, 0) /= 0)

\* C4: after a reconciliation there is exactly one stored Guild per surviving
\* community id, and its member count is the roster's count when that is
\* present and non-zero, and otherwise what it was before (0 for a new guild).
C4_IdempotentUpsert ==
  [][ (last'.op = "getGuilds" /\ last'.status = 200) =>
        \A d \in SurvivingIds(last'.roster) :
          /\ Cardinality(KeysOf(guilds', d)) = 1
          /\ \A k \in KeysOf(guilds', d) :
               LET counts == TruthyCounts(last'.roster, d)
               IN guilds'[k].memberCount =
                    IF counts /= <<>>
                    THEN OrElse(counts[Len(counts)].approximate_member_count, 0)
                    ELSE IF k \in DOMAIN guilds THEN guilds[k].memberCount ELSE 0 ]_vars

\* C5: the record stored under key k has id k and keeps the createdAt it was
\* created with, whatever updates are applied.
C5_IdAndCreatedAtImmutable ==
  [][ \A k \in DOMAIN guilds :
        /\ guilds'[k].id = k
        /\ guilds'[k].createdAt = guilds[k].createdAt ]_vars

\* C6: a reconciliation changes nothing but name, icon and memberCount of a
\* Guild that was already stored: settings, botJoined, createdAt, id,
\* discordId and ownerDiscordId are as before.
C6_UpdateTouchesOnlyNameIconCount ==
  [][ last'.op = "getGuilds" =>
        \A k \in DOMAIN guilds :
          \A f \in GuildFields \ {"name", "icon", "memberCount"} :
            guilds'[k][f] = guilds[k][f] ]_vars

\* C6 witness: a reconciliation has updated a stored Guild that carries
\* settings, and the refreshed record differs from the entry-independent
\* default in settings.
C6_Witness ==
  /\ Reconciled
  /\ \E i \in 1..Len(last.trace) :
       /\ last.trace[i].branch = "update"
       /\ \E g \in last.trace[i].ret :
            /\ g.settings = SomeSettings
            /\ g.name = last.trace[i].entry.name

\* C7: a stored member count n > 0 of community d is still n after a
\* reconciliation in which every surviving entry for d reports 0 or no count.
C7_ZeroNeverErasesCount ==
  [][ (last'.op = "getGuilds" /\ last'.status = 200) =>
        \A d \in SurvivingIds(last'.roster) :
          TruthyCounts(last'.roster, d) = <<>> =>
            \A k \in KeysOf(guilds, d) :
              guilds[k].memberCount > 0 => guilds'[k].memberCount = guilds[k].memberCount ]_vars

\* C8: the record made by the create branch has name, icon and member count
\* of the entry (0 when the entry reports none), botJoined false, and
\* ownerDiscordId the caller's discordId for an owner entry and "" otherwise.
C8_CreatedFromEntry ==
  Reconciled =>
    \A i \in 1..Len(last.trace) :
      last.trace[i].branch = "create" =>
        LET e == last.trace[i].entry
        IN /\ Cardinality(last.trace[i].ret) = 1
           /\ \A g \in last.trace[i].ret :
                /\ g.discordId = e.id
                /\ g.name = e.name
                /\ g.icon = e.icon
                /\ g.memberCount =
                     (IF e.approximate_member_count \in {{}, {0}} THEN 0
                      ELSE CHOOSE n \in e.approximate_member_count : TRUE)
                /\ g.botJoined = FALSE
                /\ g.ownerDiscordId = (IF e.owner THEN last.caller ELSE "")
                /\ g.id \in DOMAIN guilds
                /\ \A f \in GuildFields \ {"name", "icon", "memberCount"} :
                     guilds[g.id][f] = g[f]

\* C8 witness: a guild was created for an entry that is not flagged owner.
C8_Witness ==
  /\ Reconciled
  /\ \E i \in 1..Len(last.trace) :
       /\ last.trace[i].branch = "create"
       /\ ~last.trace[i].entry.owner
       /\ \E g \in last.trace[i].ret : g.ownerDiscordId = ""

\* C9: the response has one element per surviving roster entry, in roster
\* order, and the element at each position is the Guild of that entry's id.
C9_ResponseFollowsRoster ==
  Reconciled =>
    LET admin == Survivors(last.roster)
    IN /\ Len(last.res) = Len(admin)
       /\ \A i \in 1..Len(admin) :
            i <= Len(last.res) => last.res[i].discordId = admin[i].id

\* C10: reconciling an empty roster answers an empty list and leaves the
\* store as it was.
C10_EmptyRosterNoMutation ==
  [][ (last'.op = "getGuilds" /\ last'.status = 200 /\ last'.roster = <<>>) =>
        /\ last'.res = <<>>
        /\ guilds' = guilds
        /\ nextId' = nextId ]_vars

\* C10 witness: an empty roster was reconciled against a store holding guilds.
C10_Witness ==
  /\ Reconciled
  /\ last.roster = <<>>
  /\ last.res = <<>>
  /\ DOMAIN guilds /= {}

\* C11: no two stored User records have the same discordId.
C11_UserDiscordIdUnique ==
  \A k1 \in DOMAIN users, k2 \in DOMAIN users :
    users[k1].discordId = users[k2].discordId => k1 = k2

\* How a create partial of the model holds a field: a value (the field is
\* always supplied), an optional value whose stored form is the value, or an
\* optional value whose stored form keeps the option.
OptionalFields(kind) ==
  CASE kind = "users" -> {"discriminator", "avatar", "accessToken", "refreshToken"}
    [] kind = "guilds" -> {"settings"}
    [] kind = "attendanceEvents" -> {"description", "channelId", "messageId"}
    [] kind = "forms" -> {"description"}
    [] kind = "giveaways" -> {"description", "channelId", "messageId"}
    [] kind = "twitchStreamers" -> {"gameName", "streamTitle", "notificationChannelId"}

UndefaultedFields(kind) ==
  CASE kind = "users" -> {"tokenExpires"}
    [] kind = "guilds" -> {}
    [] kind = "attendanceEvents" -> {"isRecurring", "roles", "attendees"}
    [] kind = "forms" -> {"questions", "responses", "isActive"}
    [] kind = "giveaways" -> {"winnerCount", "entries", "winners", "isActive"}
    [] kind = "twitchStreamers" -> {"isLive", "viewerCount", "lastChecked"}

\* The value the partial supplies for field f, as a stored record holds it:
\* {} when the partial does not supply f.
Supplied(kind, insert, f) ==
  IF f \in UndefaultedFields(kind) THEN (IF insert[f] = {} THEN {} ELSE {insert[f]})
  ELSE IF f \in OptionalFields(kind) THEN insert[f]
  ELSE {insert[f]}

Created == last.op = "create"

\* C12: after create, get of the returned id yields one record; it carries
\* the generated id and the creation time, and every field the partial
\* supplied has the supplied value.
C12_CreateThenGet ==
  Created =>
    /\ Cardinality(get(last.kind, last.key)) = 1
    /\ \A rec \in get(last.kind, last.key) :
         /\ rec = last.res[1]
         /\ rec.id = last.key
         /\ rec.createdAt = now - 1
         /\ \A f \in Fields(last.kind) \ {"id", "createdAt"} :
              \A v \in Supplied(last.kind, last.body, f) : rec[f] = v

\* The collection of a kind in the next state.
CollectionAfter(kind) ==
  CASE kind = "users" -> users'
    [] kind = "guilds" -> guilds'
    [] kind = "attendanceEvents" -> attendanceEvents'
    [] kind = "forms" -> forms'
    [] kind = "giveaways" -> giveaways'
    [] kind = "twitchStreamers" -> twitchStreamers'

\* C13: a create never returns an identifier that was issued before, stores
\* the record under an identifier no collection holds, and leaves every record
\* stored before in place; the keys of the six collections are disjoint.
C13_IdentifiersNeverReused ==
  [][ last'.op = "create" =>
        /\ last'.res[1].id \notin 1..(nextId - 1)
        /\ \A kind \in Kinds :
             /\ last'.res[1].id \notin DOMAIN Collection(kind)
             /\ \A k \in DOMAIN Collection(kind) :
                  /\ k \in DOMAIN CollectionAfter(kind)
                  /\ CollectionAfter(kind)[k] = Collection(kind)[k]
        /\ last'.res[1].id \in DOMAIN CollectionAfter(last'.kind)
        /\ \A k1 \in Kinds :
             \A k2 \in Kinds \ {k1} :
               DOMAIN CollectionAfter(k1) \cap DOMAIN CollectionAfter(k2) = {} ]_vars

\* C13 witness: a create on a collection that already held a record, while
\* another collection holds records too.
C13_Witness ==
  /\ Created
  /\ Cardinality(DOMAIN Collection(last.kind)) >= 2
  /\ \E kind \in Kinds \ {last.kind} : DOMAIN Collection(kind) /= {}

\* The defaults the schema declares for the columns a create partial may omit.
HasSchemaDefault(kind) ==
  CASE kind = "users" -> {}
    [] kind = "guilds" -> {"settings"}
    [] kind = "attendanceEvents" -> {"isRecurring", "roles", "attendees"}
    [] kind = "forms" -> {"questions", "responses", "isActive"}
    [] kind = "giveaways" -> {"winnerCount", "entries", "winners", "isActive"}
    [] kind = "twitchStreamers" -> {"isLive", "viewerCount"}

SchemaDefault(f) ==
  CASE f \in {"roles", "attendees", "questions", "responses", "entries", "winners"} -> <<>>
    [] f \in {"isRecurring", "isLive"} -> FALSE
    [] f = "isActive" -> TRUE
    [] f = "viewerCount" -> 0
    [] f = "winnerCount" -> 1
    [] f = "settings" -> {}

\* C14: in the record a create stores, every field that has a default and
\* that the partial omits holds that default.
C14_AbsentFieldsDefaulted ==
  Created =>
    \A rec \in get(last.kind, last.key) :
      \A f \in HasSchemaDefault(last.kind) :
        last.body[f] = {} =>
          rec[f] = (IF f \in UndefaultedFields(last.kind) THEN {SchemaDefault(f)}
                    ELSE SchemaDefault(f))

Updated == last.op = "update" /\ last.res /= <<>>

\* C15: an update of a stored record returns and stores a record in which
\* every field the partial supplies has the supplied value and every other
\* field has its prior value; a supplied settings document is stored as it
\* was supplied, with none of the keys of the former document added.
C15_UpdateOverwritesSuppliedFields ==
  [][ (last'.op = "update" /\ last'.res /= <<>>) =>
        LET before == Collection(last'.kind)
            after == CollectionAfter(last'.kind)
            id == last'.key
        IN /\ id \in DOMAIN before
           /\ id \in DOMAIN after
           /\ after[id] = last'.res[1]
           /\ \A f \in Fields(last'.kind) :
                /\ last'.body[f] = {} => after[id][f] = before[id][f]
                /\ \A v \in last'.body[f] : after[id][f] = v
           /\ last'.kind = "guilds" =>
                \A doc \in last'.body["settings"] :
                  \A pair \in after[id].settings : pair \in doc ]_vars

\* C15 witness: a Guild whose settings held a logging key was updated with a
\* settings document that has no logging key, and the stored document has none.
C15_Witness ==
  /\ Updated
  /\ last.kind = "guilds"
  /\ last.body["settings"] = {{<<"prefix", "?">>}}
  /\ last.key \in DOMAIN guilds
  /\ guilds[last.key].settings = {<<"prefix", "?">>}
  /\ guilds[last.key].name = "Alpha"
  /\ guilds[last.key].discordId = "g2"

\* C16: an update with the empty partial returns the stored record and
\* leaves the collection as it was.
C16_EmptyUpdateChangesNothing ==
  [][ (last'.op = "update" /\ last'.key \in DOMAIN Collection(last'.kind)
         /\ \A f \in Fields(last'.kind) : last'.body[f] = {}) =>
        /\ last'.res = <<Collection(last'.kind)[last'.key]>>
        /\ CollectionAfter(last'.kind) = Collection(last'.kind) ]_vars

\* C16 witness: the empty partial was applied to a Form with a description,
\* in a collection of two Forms.
C16_Witness ==
  /\ Updated
  /\ last.kind = "forms"
  /\ \A f \in FormFields : last.body[f] = {}
  /\ last.res[1].description = "about"
  /\ Cardinality(DOMAIN forms) = 2

\* C17: an update with an id that is not in the collection returns absent
\* and changes no collection.
C17_UpdateOfMissingId ==
  [][ (last'.op = "update" /\ last'.key \notin DOMAIN Collection(last'.kind)) =>
        /\ last'.res = <<>>
        /\ \A kind \in Kinds : CollectionAfter(kind) = Collection(kind)
        /\ nextId' = nextId ]_vars

\* C17 witness: a non-empty partial was applied to the Giveaways with an id
\* that was issued but is not a key of the collection, while a Giveaway is
\* stored.
C17_Witness ==
  /\ last.op = "update"
  /\ last.kind = "giveaways"
  /\ last.res = <<>>
  /\ last.key \in 1..(nextId - 1)
  /\ last.body["isActive"] /= {}
  /\ giveaways /= <<>>

\* C18: delete of a stored child record returns true and removes that record
\* only; delete of an id that is not stored returns false and changes nothing;
\* an id that is not in a collection is not in it after any later operation
\* (a create stores under a new id).
C18_DeleteThenGetAbsent ==
  [][ /\ last'.op = "delete" =>
           LET before == Collection(last'.kind)
               after == CollectionAfter(last'.kind)
           IN /\ last'.res = <<last'.key \in DOMAIN before>>
              /\ last'.key \notin DOMAIN after
              /\ DOMAIN after = DOMAIN before \ {last'.key}
              /\ \A k \in DOMAIN after : after[k] = before[k]
      /\ \A kind \in ChildKinds :
           \A k \in KnownIds :
             k \notin DOMAIN Collection(kind) => k \notin DOMAIN CollectionAfter(kind) ]_vars

\* C18 witness: a Form was deleted from a collection of two and get of its
\* id finds nothing.
C18_Witness ==
  /\ last.op = "delete"
  /\ last.kind = "forms"
  /\ last.res = <<TRUE>>
  /\ getForm(forms, last.key) = {}
  /\ Cardinality(DOMAIN forms) = 1

\* Alphabetical order of the model's usernames, lower case before upper case.
NotAfter(a, b) ==
  <<a, b>> \in {<<"amy", "amy">>, <<"amy", "bea">>, <<"amy", "Bea">>,
                <<"bea", "bea">>, <<"bea", "Bea">>, <<"Bea", "Bea">>}

\* The kind's order between two neighbours of a list.
InOrder(kind, a, b) ==
  CASE kind = "attendanceEvents" -> a.date >= b.date
    [] kind \in {"forms", "giveaways"} -> a.createdAt >= b.createdAt
    [] kind = "twitchStreamers" -> NotAfter(a.username, b.username)

\* C19: the list of a guild holds the stored records of the kind whose guildId
\* is that guild, each once and no other record, in the order of the kind.
C19_ListByOwner ==
  last.op = "list" =>
    LET map == Collection(last.kind)
        own == {k \in DOMAIN map : map[k].guildId = last.caller}
    IN /\ Len(last.res) = Cardinality(own)
       /\ \A k \in own : \E i \in 1..Len(last.res) : last.res[i] = map[k]
       /\ \A i \in 1..Len(last.res) : \E k \in own : last.res[i] = map[k]
       /\ \A i \in 1..(Len(last.res) - 1) : InOrder(last.kind, last.res[i], last.res[i + 1])

\* C19 witness: two AttendanceEvents of one guild were listed, the later date
\* first though that event was stored second.
C19_Witness ==
  /\ last.op = "list"
  /\ last.kind = "attendanceEvents"
  /\ Len(last.res) = 2
  /\ last.res[1].date > last.res[2].date
  /\ last.res[1].id > last.res[2].id

\* C20: when every write to a file has completed successfully, the file holds
\* the complete serialization of the document of one of those writes.
C20_ConcurrentWritesSerialized ==
  \A filePath \in DOMAIN files :
    LET calls == {n \in DOMAIN writes : writes[n].filePath = filePath}
    IN (\A n \in calls : writes[n].state = "closed") =>
         \E n \in calls : files[filePath] = stringify(writes[n].data)

\* The fs.writeFile calls on the file a name resolves to.
CallsOn(filePath) == {n \in DOMAIN writes : writes[n].filePath = filePath}

\* No two writes of the file overlapped and none failed.
WrittenInTurn(filePath) ==
  \A n \in CallsOn(filePath) : ~writes[n].overlapped /\ writes[n].state /= "failed"

\* A read that the file system did not refuse has been answered.
ReadAnswered == last.op = "readDatabaseFile" /\ last.error /= "EACCES"

\* C21: a read of a file whose writes came one at a time, the last of them
\* possibly still in flight, succeeds and returns the empty document of the
\* missing file or the complete document of one of the writes.
C21_ReadNeverSeesPartialWrite ==
  ReadAnswered =>
    LET filePath == join(databasePath, last.filename)
    IN WrittenInTurn(filePath) =>
         /\ last.status = 200
         /\ last.res \in {<<>>} \cup {writes[n].data : n \in CallsOn(filePath)}

\* The path names a file beneath the root directory.
Beneath(filePath) ==
  /\ Len(filePath) > Len(databasePath)
  /\ SubSeq(filePath, 1, Len(databasePath)) = databasePath

\* C22: every file written, and the file of every read, lies beneath
\* databasePath.
C22_PathsStayBeneathRoot ==
  /\ \A filePath \in DOMAIN files : Beneath(filePath)
  /\ \A n \in DOMAIN writes : Beneath(writes[n].filePath)
  /\ last.op = "readDatabaseFile" => Beneath(join(databasePath, last.filename))

Max(S) == CHOOSE m \in S : \A o \in S : m >= o

\* C23: when the writes of a file came one at a time and all have completed,
\* a read of a name returns the document of the latest write made under that
\* name, whatever was written under other names since.
C23_WriteThenRead ==
  ReadAnswered =>
    LET filePath == join(databasePath, last.filename)
        named == {n \in DOMAIN writes : writes[n].filename = last.filename}
    IN (/\ named /= {}
        /\ WrittenInTurn(filePath)
        /\ \A n \in CallsOn(filePath) : writes[n].state = "closed") =>
         /\ last.status = 200
         /\ last.res = writes[Max(named)].data

\* C24: a read of a name whose file does not exist answers the empty document
\* with 200; a read the file system refuses, and a read of a file whose text
\* does not parse, answers 500 with the error; no read creates or changes a
\* file.
C24_ReadFailures ==
  [][ \A filename \in Filenames, errno \in Errnos :
        ReadFile(filename, errno) =>
          LET filePath == join(databasePath, filename)
          IN /\ files' = files
             /\ filePath \notin DOMAIN files =>
                  last'.status = 200 /\ last'.res = <<>> /\ last'.error = ""
             /\ (filePath \in DOMAIN files /\ errno /= "") =>
                  last'.status = 500 /\ last'.error = errno
             /\ (filePath \in DOMAIN files /\ errno = ""
                   /\ parse(files[filePath]).error /= "") =>
                  last'.status = 500 /\ last'.error = "SyntaxError" ]_vars

\* C24 witness: a read of a file holding the beginning of a document was
\* answered 500 with the SyntaxError.
C24_Witness ==
  /\ last.op = "readDatabaseFile"
  /\ last.status = 500
  /\ last.error = "SyntaxError"
  /\ join(databasePath, last.filename) \in DOMAIN files
  /\ files[join(databasePath, last.filename)] /= <<>>

\* C25: when no reconciliation is in flight, the store holds at most one Guild
\* for every community id.
C25_ConcurrentReconciliationsOneGuild ==
  reconciling = <<>> =>
    \A d \in DiscordIds : Cardinality(KeysOf(guilds, d)) <= 1

\* Two partials that supply no field in common, and the partial that supplies
\* what either does.
Disjoint(u1, u2) == \A f \in DOMAIN u1 : u1[f] = {} \/ u2[f] = {}
Both(u1, u2) == [f \in DOMAIN u1 |-> u1[f] \cup u2[f]]

C27_OnlyOwnCollectionChanges ==
  [][ last'.op \in {"create", "update", "delete"} =>
        /\ \A kind \in Kinds \ {last'.kind} : CollectionAfter(kind) = Collection(kind)
        /\ files' = files /\ writes' = writes
        /\ last'.kind = "guilds" =>
             \A kind \in ChildKinds :
               \A k \in DOMAIN Collection(kind) :
                 /\ k \in DOMAIN CollectionAfter(kind)
                 /\ CollectionAfter(kind)[k] = Collection(kind)[k]
        /\ (last'.op = "create" /\ last'.kind \in ChildKinds) =>
             /\ last'.res /= <<>>
             /\ last'.res[1].guildId = last'.body.guildId
             /\ last'.res[1].id \in DOMAIN CollectionAfter(last'.kind)
             /\ CollectionAfter(last'.kind)[last'.res[1].id] = last'.res[1] ]_vars

\* C27 witness: a Guild was updated while a child record that references it,
\* created before the Guild was, is stored.
C27_Witness ==
  /\ last.op = "update"
  /\ last.kind = "guilds"
  /\ last.res /= <<>>
  /\ \E kind \in ChildKinds :
       \E k \in DOMAIN Collection(kind) :
         Collection(kind)[k].guildId = last.key /\ k < last.key

\* C28: a request without an authenticated session, to any route of the
\* guild, attendance, form, giveaway, twitch and database groups, is answered
\* 401 with no data, and leaves every collection, every file, the writes in
\* flight and the id generator as they were.
C28_UnauthenticatedNeverReachesStore ==
  [][ RouteRequest(FALSE) =>
        /\ last'.status = 401
        /\ last'.res = <<>>
        /\ UNCHANGED <<guilds, nextId, children, outside>> ]_vars

\* C28 witness: a delete request without a session was answered 401 while a
\* record of its kind is stored.
C28_Witness ==
  /\ last.op = "delete"
  /\ last.status = 401
  /\ Collection(last.kind) /= <<>>

\* C29: a GET /api/guilds whose roster fetch fails is answered 500 with no
\* guilds, and leaves the Guild store and the id generator as they were.
C29_FetchFailureLeavesStore ==
  [][ (\E u \in Callers : GetGuildsFetchFailed(u)) =>
        /\ last'.status = 500
        /\ last'.res = <<>>
        /\ guilds' = guilds
        /\ nextId' = nextId ]_vars

\* C29 witness: the fetch failed for a caller whose guilds are stored.
C29_Witness ==
  /\ last.op = "getGuilds"
  /\ last.status = 500
  /\ \E k \in DOMAIN guilds : guilds[k].ownerDiscordId = last.caller

\* C30: the userId -> guildIds index is empty in every reachable state, and
\* getUserGuilds answers the empty list for every user.
C30_UserGuildsNeverWritten ==
  /\ userGuilds = <<>>
  /\ \A userId \in Callers \cup UserIds :
       getUserGuilds(userGuilds, guilds, userId) = <<>>

\* C30 witness: a reconciliation has answered guilds to the caller, one of
\* them owned by the caller, and getUserGuilds finds none for the caller.
C30_Witness ==
  /\ last.op = "getGuilds"
  /\ last.status = 200
  /\ \E i \in 1..Len(last.res) : last.res[i].ownerDiscordId = last.caller
  /\ getUserGuilds(userGuilds, guilds, last.caller) = <<>>

====
